---------------------------- MODULE Spec2Model ----------------------------
(***************************************************************************)
(* A model of the HMLR data portal (src/src): the data-access library      *)
(* (lib.py) and the three pages built on it (single_dataframe.py,          *)
(* single_editor.py, dataframe_map.py).                                    *)
(*                                                                         *)
(* The module holds five specifications over one set of variables; each    *)
(* one moves the variables of one part of the program and leaves the       *)
(* others at their initial value:                                          *)
(*   SpecGeom    process_geometry applied to every bounded table           *)
(*   SpecMap     the map page: fetch, grid selection, refresh, layers      *)
(*   SpecEngine  _create_database_engine and the cached engine             *)
(*   SpecCache   load_data's query cache (ttl, clear)                      *)
(*   SpecSave    the editor's save transaction and concurrent readers      *)
(***************************************************************************)
EXTENDS Integers, Sequences, FiniteSets, Bags, TLC

VARIABLES
    \* ---- process_geometry (dataframe_map.py 19-50)
    g_data,          \* the table handed to process_geometry
    g_pc,            \* "call" | "returned"
    g_features,      \* the local list `features` when the loop ended
    g_row_data_list, \* the local list `row_data_list` when the loop ended
    g_gdf,           \* the returned GeoDataFrame (a sequence of rows)
    \* ---- the map page (dataframe_map.py) and what it reads
    m_cache,         \* load_data's cache entry for the page's query
    m_widgetSel,     \* the selection held by the grid widget keyed 'table'
    m_selStale,      \* that selection was made on a table of an earlier fetch
    m_selected_rows, \* st.session_state['selected_rows']
    m_table,         \* `table` of the last run
    m_fetched,       \* whether the last run executed the query
    m_gridShown,     \* whether the last run rendered the grid and the button
    m_phase,         \* "idle" | "rerun" (st.rerun() asked for by line 81)
    m_refreshed,     \* the last run is the one line 81 asked for, and the
                     \* selection was not empty when Refresh was clicked
    m_gdfRows,       \* len(gdf) of the last run (line 88), 0 when not reached
    m_lookup,        \* the indices given to table.iloc in the last run (line 116)
    m_layers,        \* `layers` of the last run
    m_outcome,       \* how the last run ended
    \* ---- the database engine (lib.py 15-78)
    e_env,           \* os.environ: each DB_* key's text, or Absent
    e_reachable,     \* whether the database answers a connection now
    e_cached,        \* st.cache_resource's entry: 0, or the engine it holds
    e_lock,          \* the session computing the entry, or 0
    e_pc,            \* per session: where its get_database_engine call is
    e_port,          \* per session: the local `port` of line 30
    e_result,        \* per session: how its last call ended
    e_got,           \* per session: the engine its last call returned, or 0
    e_calls,         \* calls of get_database_engine so far
    e_built,         \* engines built by create_engine (line 46)
    e_trips,         \* round trips attempted (lines 55-56)
    e_created,       \* engines returned by _create_database_engine (line 58)
    e_urlPort,       \* the port of the URL last built (line 42), 0 before
    \* ---- load_data's cache (lib.py 81-99)
    c_now,           \* the clock, in seconds
    c_entries,       \* st.cache_data's entries, by SQL text
    c_dbVersion,     \* the state of the database: a query's result follows it
    c_filled,        \* by SQL text: when the query last returned a result, -1
                     \* before, and -1 again once load_data.clear() was called
    c_value,         \* by SQL text: the result the query last returned
    c_last,          \* the last call of load_data: its SQL, whether it found a
                     \* result still in its window, whether the query was
                     \* executed, how it ended and what it returned
    \* ---- the editor's save (single_editor.py) and a concurrent reader
    s_committed,     \* the committed rows of public.test, a bag
    s_cache,         \* load_data's entry for the editor's query
    s_stale,         \* another client wrote since the cached table was fetched
    s_quiet,         \* no other client wrote since the table the current save
                     \* works from was fetched
    s_failedAt,      \* where the last failed save was when it failed
    s_pc,            \* "closed" | "page" | "begun" | "deleted" | "inserting"
                     \* | "rerun": where the editor's session is
    s_table,         \* `table` of the session's last run (line 13)
    s_edit,          \* the edit the grid widget holds
    s_data,          \* `data` of the last run (line 14): the grid's rows
    s_txDeleted,     \* the rows the open transaction has deleted
    s_txInserted,    \* the rows the open transaction has inserted
    s_without,       \* the rows the table would hold without the last save:
                     \* those committed when it began and those other
                     \* clients committed since
    s_msg,           \* "none" | "success" | "error": what the handler showed
    r_seen,          \* what a reader's fetch during the save returned, a bag
    r_when,          \* where the save was when the reader fetched
    r_without        \* s_without at that moment

geomVars == <<g_data, g_pc, g_features, g_row_data_list, g_gdf>>

mapVars == <<m_cache, m_widgetSel, m_selStale, m_selected_rows, m_table,
             m_fetched, m_gridShown, m_phase, m_refreshed, m_gdfRows, m_lookup,
             m_layers, m_outcome>>

engineVars == <<e_env, e_reachable, e_cached, e_lock, e_pc, e_port, e_result,
                e_got, e_calls, e_built, e_trips, e_created, e_urlPort>>

cacheVars == <<c_now, c_entries, c_dbVersion, c_filled, c_value, c_last>>

saveVars == <<s_committed, s_cache, s_stale, s_quiet, s_failedAt, s_pc, s_table, s_edit, s_data,
              s_txDeleted, s_txInserted, s_without, s_msg, r_seen, r_when,
              r_without>>

vars == <<geomVars, mapVars, engineVars, cacheVars, saveVars>>

---------------------------------------------------------------------------
(* Bounds of the model.                                                    *)

\* longest table handed to process_geometry in SpecGeom
MaxGeomRows == 3

\* most rows of public.test_geom in SpecMap
MaxMapRows == 2

\* user sessions of the process in SpecEngine
NumSessions == 2

\* most calls of get_database_engine in SpecEngine
MaxEngineCalls == 3

\* SpecCache: the clock stops at MaxClock seconds and moves in steps of
\* ShortWait (inside the expiry window) or LongWait (past it) seconds; the
\* database changes at most MaxDbVersion times
MaxClock == 1500
ShortWait == 250
LongWait == 700
MaxDbVersion == 2

\* most rows of public.test in SpecSave
MaxTestRows == 2

---------------------------------------------------------------------------
(* Values.                                                                 *)

\* The value of a row's `geometry` cell, by what the code tests of it
\* (dataframe_map.py 28, 30, 31):
\* (GeomMissing stands for a table without the column.)
\*   none       None: falsy
\*   emptydict  {}: a dict, but falsy
\*   text       a non-empty str (GeoJSON left unparsed): truthy, not a dict
\*   dict       a dict; hasFeatures tells whether it has the key 'features',
\*              listOk whether the value under it is a list
Geom(kind, hasFeatures, listOk, feats) ==
    [kind |-> kind, hasFeatures |-> hasFeatures, listOk |-> listOk, features |-> feats]

GeomMissing == Geom("missing", FALSE, TRUE, <<>>)
GeomNone == Geom("none", FALSE, TRUE, <<>>)
GeomEmptyDict == Geom("emptydict", FALSE, TRUE, <<>>)
GeomText == Geom("text", FALSE, TRUE, <<>>)
GeomNoKey == Geom("dict", FALSE, TRUE, <<>>)
GeomBadList == Geom("dict", TRUE, FALSE, <<>>)
GeomOf(feats) == Geom("dict", TRUE, TRUE, feats)

\* A feature of a collection: a shape in the source grid (EPSG:27700).
SrcCrs == 27700
DstCrs == 4326
Feature(shape) == [shape |-> shape, crs |-> SrcCrs]

\* A table row: its non-geometry column and its geometry cell.
Row(id, geom) == [id |-> id, geometry |-> geom]

---------------------------------------------------------------------------
(* The value every part of the program has while a specification of       *)
(* another part runs.                                                      *)

\* load_data's cache without an entry for the query.
NoEntry == [present |-> FALSE, table |-> <<>>]

GeomIdle ==
    /\ g_data = <<>>
    /\ g_pc = "idle"
    /\ g_features = <<>>
    /\ g_row_data_list = <<>>
    /\ g_gdf = <<>>

MapIdle ==
    /\ m_cache = NoEntry
    /\ m_widgetSel = <<>>
    /\ m_selStale = FALSE
    /\ m_selected_rows = <<>>
    /\ m_table = <<>>
    /\ m_fetched = FALSE
    /\ m_gridShown = FALSE
    /\ m_phase = "idle"
    /\ m_refreshed = FALSE
    /\ m_gdfRows = 0
    /\ m_lookup = <<>>
    /\ m_layers = <<>>
    /\ m_outcome = "none"

Sessions == 1..NumSessions

EngineIdle ==
    /\ e_env = <<>>
    /\ e_reachable = FALSE
    /\ e_cached = 0
    /\ e_lock = 0
    /\ e_pc = <<>>
    /\ e_port = <<>>
    /\ e_result = <<>>
    /\ e_got = <<>>
    /\ e_calls = 0
    /\ e_built = 0
    /\ e_trips = 0
    /\ e_created = 0
    /\ e_urlPort = 0

CacheIdle ==
    /\ c_now = 0
    /\ c_entries = <<>>
    /\ c_dbVersion = 0
    /\ c_filled = <<>>
    /\ c_value = <<>>
    /\ c_last = <<>>

NoEdit == [op |-> "none", pos |-> 0, row |-> ""]

SaveIdle ==
    /\ s_committed = EmptyBag
    /\ s_cache = NoEntry
    /\ s_stale = FALSE
    /\ s_quiet = FALSE
    /\ s_failedAt = "none"
    /\ s_pc = "closed"
    /\ s_table = <<>>
    /\ s_edit = NoEdit
    /\ s_data = <<>>
    /\ s_txDeleted = EmptyBag
    /\ s_txInserted = <<>>
    /\ s_without = EmptyBag
    /\ s_msg = "none"
    /\ r_seen = EmptyBag
    /\ r_when = "never"
    /\ r_without = EmptyBag

---------------------------------------------------------------------------
(* process_geometry (dataframe_map.py 19-49).                              *)

\* Python truthiness of a geometry cell: `if row['geometry']:` (line 28).
Truthy(geom) == geom.kind \in {"text", "dict"}

\* isinstance(feature_collection, dict) (line 30).
IsDict(geom) == geom.kind \in {"dict", "emptydict"}

\* feature_collection.get('features', []) (line 31): the default is the
\* empty list.
GetFeatures(geom) == IF geom.hasFeatures THEN geom.features ELSE <<>>

\* row.drop('geometry').to_dict() (line 35): the row without its geometry.
RowDict(row) == [id |-> row.id]

\* [row_dict] * n
Repeat(x, n) == [i \in 1..n |-> x]

\* row_data_list.extend([row_dict] * len(geom_features)) (line 37), for a
\* row with one attribute mapping too few: extended once per row.
ExtendRowDataOncePerRow(row_data_list, row_dict, n) ==
    row_data_list \o <<row_dict>>

\* row_data_list.extend([row_dict] * len(geom_features)) (line 37).
ExtendRowData(row_data_list, row_dict, n) ==
    row_data_list \o Repeat(row_dict, n)

\* The loop of lines 27-37 from row i on. `raised` is set when
\* features.extend(geom_features) is given a value that is no list (line 32
\* raises TypeError before either list is extended).
RECURSIVE FlattenFrom(_, _, _, _)
FlattenFrom(data, i, features, row_data_list) ==
    IF i > Len(data)
    THEN [raised |-> FALSE, features |-> features, row_data_list |-> row_data_list]
    ELSE LET row == data[i]
             geom == row.geometry
         IN  IF Truthy(geom) /\ IsDict(geom)
             THEN IF geom.hasFeatures /\ ~geom.listOk
                  THEN [raised |-> TRUE, features |-> features,
                        row_data_list |-> row_data_list]
                  ELSE LET geom_features == GetFeatures(geom)
                       IN  FlattenFrom(data, i + 1,
                               features \o geom_features,
                               ExtendRowData(row_data_list, RowDict(row),
                                             Len(geom_features)))
             ELSE FlattenFrom(data, i + 1, features, row_data_list)

Flatten(data) == FlattenFrom(data, 1, <<>>, <<>>)

\* gdf.to_crs(4326) (line 41) on one feature.
ToCrs(feature) == [shape |-> feature.shape, crs |-> DstCrs]

\* json.dumps(data, indent=2) (line 45): the text of a row dict.
JsonDumps(row_dict) == <<"json", row_dict.id>>

\* gpd.GeoDataFrame(): the frame with no rows (line 50).
EmptyGdf == <<>>

\* Lines 40-47: one frame row per feature, reprojected, with the row_data
\* column assigned from row_data_list when that list is not empty (line 44).
\* Assigning a column of another length than the frame raises (pandas
\* ValueError). For no features at all the frame has no rows, whether
\* from_features returns it or raises for want of a geometry column: the
\* function returns the empty frame either way.
BuildGdf(features, row_data_list) ==
    IF features = <<>> THEN [raised |-> FALSE, gdf |-> EmptyGdf]
    ELSE IF row_data_list # <<>> /\ Len(row_data_list) # Len(features)
    THEN [raised |-> TRUE, gdf |-> EmptyGdf]
    ELSE [raised |-> FALSE,
          gdf |-> [i \in 1..Len(features) |->
                    [geometry |-> ToCrs(features[i]),
                     row_data |-> IF row_data_list = <<>> THEN <<"json", 0>>
                                  ELSE JsonDumps(row_data_list[i])]]]

\* The try block, lines 22-47.
TryBody(data) ==
    LET r == Flatten(data)
    IN  IF r.raised THEN [raised |-> TRUE, gdf |-> EmptyGdf]
        ELSE BuildGdf(r.features, r.row_data_list)

\* An except branch that lets the exception out of process_geometry.
PropagateGeometryError == [raised |-> TRUE, gdf |-> EmptyGdf]

\* The except branch, lines 48-50: st.error(...) and the empty frame.
CatchGeometryError == [raised |-> FALSE, gdf |-> EmptyGdf]

\* process_geometry(data), lines 19-50: `raised` tells whether an exception
\* leaves the function, gdf is the frame returned. The st.cache_data
\* memoisation of line 19 is taken to return what the body would compute.
process_geometry(data) ==
    LET r == TryBody(data)
    IN  IF r.raised THEN CatchGeometryError ELSE r

\* gdf.empty (lines 90, 119)
IsEmptyGdf(gdf) == Len(gdf) = 0

---------------------------------------------------------------------------
(* SpecGeom: process_geometry on every table of at most MaxGeomRows rows.  *)

GeomValues ==
    {GeomNone, GeomEmptyDict, GeomText, GeomNoKey, GeomBadList,
     GeomOf(<<>>), GeomOf(<<Feature("fa")>>),
     GeomOf(<<Feature("fa"), Feature("fb")>>)}

GeomRows == {Row(id, geom) : id \in {1, 2}, geom \in GeomValues}

GeomTables == UNION {[1..n -> GeomRows] : n \in 0..MaxGeomRows}

InitGeom ==
    /\ MapIdle
    /\ EngineIdle
    /\ CacheIdle
    /\ SaveIdle
    /\ g_data \in GeomTables
    /\ g_pc = "call"
    /\ g_features = <<>>
    /\ g_row_data_list = <<>>
    /\ g_gdf = <<>>

\* One call of process_geometry(g_data).
CallProcessGeometry ==
    /\ g_pc = "call"
    /\ g_pc' = "returned"
    /\ g_features' = Flatten(g_data).features
    /\ g_row_data_list' = Flatten(g_data).row_data_list
    /\ g_gdf' = process_geometry(g_data).gdf
    /\ UNCHANGED g_data
    /\ UNCHANGED <<mapVars, engineVars, cacheVars, saveVars>>

NextGeom == CallProcessGeometry

SpecGeom == InitGeom /\ [][NextGeom]_vars

\* The number of features a row's geometry collection holds: none when the
\* row has no collection.
C5_FeatureCount(row) ==
    IF row.geometry.kind = "dict" /\ row.geometry.hasFeatures /\ row.geometry.listOk
    THEN Len(row.geometry.features) ELSE 0

RECURSIVE C5_CountUpTo(_, _)
C5_CountUpTo(data, r) ==
    IF r = 0 THEN 0 ELSE C5_CountUpTo(data, r - 1) + C5_FeatureCount(data[r])

\* The row that owns output position i, and the position inside that row.
C5_Owner(data, i) ==
    CHOOSE r \in 1..Len(data) :
        C5_CountUpTo(data, r - 1) < i /\ i <= C5_CountUpTo(data, r)

C5_Malformed(data) == \E r \in 1..Len(data) : data[r].geometry = GeomBadList

\* C5: after process_geometry returned, the flattened features and the
\* attribute mappings have the same length; for a table of well-formed
\* collections every row with N features contributed exactly N features, and
\* position i of both lists (and of the returned frame) holds the i-th
\* feature of the table and the attributes of the row that owns it.
C5_FlattenAligned ==
    g_pc = "returned" =>
        /\ Len(g_features) = Len(g_row_data_list)
        /\ ~C5_Malformed(g_data) =>
            /\ Len(g_features) = C5_CountUpTo(g_data, Len(g_data))
            /\ Len(g_gdf) = Len(g_features)
            /\ \A i \in 1..Len(g_features) :
                 LET r == C5_Owner(g_data, i)
                     k == i - C5_CountUpTo(g_data, r - 1)
                 IN  /\ g_features[i] = g_data[r].geometry.features[k]
                     /\ g_row_data_list[i] = RowDict(g_data[r])
                     /\ g_gdf[i].geometry = ToCrs(g_features[i])
                     /\ g_gdf[i].row_data = JsonDumps(RowDict(g_data[r]))

\* C5 witness: a table of two rows with different attributes, the first with
\* two features and the second with one, has been flattened.
C5_Witness ==
    /\ g_pc = "returned"
    /\ Len(g_data) >= 2
    /\ g_data[1].id # g_data[2].id
    /\ C5_FeatureCount(g_data[1]) = 2
    /\ C5_FeatureCount(g_data[2]) = 1
    /\ Len(g_gdf) >= 3

---------------------------------------------------------------------------
(* The map page, dataframe_map.py.                                         *)

FadedAlpha == 100
FullAlpha == 255

\* table.iloc[rows] (line 116): the rows at the 0-based positions `rows`.
IlocInBounds(table, rows) == \A k \in 1..Len(rows) : rows[k] < Len(table)
Iloc(table, rows) == [k \in 1..Len(rows) |-> table[rows[k] + 1]]

\* json.loads(gdf.to_json()) (lines 100, 120): a GeoJSON feature per frame
\* row, the row_data column among its properties.
ToGeoJson(gdf) ==
    [i \in 1..Len(gdf) |->
        [type |-> "Feature", geometry |-> gdf[i].geometry,
         properties |-> gdf[i].row_data]]

\* pdk.Layer("GeoJsonLayer", ...) (lines 102-111 and 122-131).
BaseLayer(geojson, alpha) == [name |-> "base", alpha |-> alpha, data |-> geojson]
HighlightLayer(geojson) == [name |-> "highlight", alpha |-> FullAlpha, data |-> geojson]

\* Lines 71-74: session state follows the grid's selection event.
SelectionFromEvent(rows) == IF rows # <<>> THEN rows ELSE <<>>

\* Lines 119-132: the highlight layer, appended only when the selected frame
\* has rows.
HighlightFor(selected_gdf) ==
    IF ~IsEmptyGdf(selected_gdf)
    THEN <<HighlightLayer(ToGeoJson(selected_gdf))>>
    ELSE <<>>

\* Line 99 with the test inverted.
BaseAlphaInverted(selected_rows) ==
    IF selected_rows # <<>> THEN FullAlpha ELSE FadedAlpha

\* Line 99.
BaseAlpha(selected_rows) ==
    IF selected_rows # <<>> THEN FadedAlpha ELSE FullAlpha

\* What a run ends with.
RunEnd(outcome, gdfRows, layers, lookup) ==
    [outcome |-> outcome, gdfRows |-> gdfRows, layers |-> layers, lookup |-> lookup]

\* Lines 84-146, the map section of one run. An exception that leaves
\* process_geometry or table.iloc (IndexError for a position past the last
\* row) ends the run where it is raised.
MapSection(table, selected_rows) ==
    LET g == process_geometry(table)
        n == Len(g.gdf)
    IN  IF g.raised
        THEN RunEnd("exception", 0, <<>>, <<>>)
        ELSE IF IsEmptyGdf(g.gdf)
        THEN RunEnd("message", n, <<>>, <<>>)
        ELSE LET base == BaseLayer(ToGeoJson(g.gdf), BaseAlpha(selected_rows))
             IN  IF selected_rows = <<>>
                 THEN RunEnd("map", n, <<base>>, <<>>)
                 ELSE IF ~IlocInBounds(table, selected_rows)
                 THEN RunEnd("exception", n, <<>>, selected_rows)
                 ELSE LET sg == process_geometry(Iloc(table, selected_rows))
                      IN  IF sg.raised
                          THEN RunEnd("exception", n, <<>>, selected_rows)
                          ELSE RunEnd("map", n, <<base>> \o HighlightFor(sg.gdf),
                                      selected_rows)

\* The widget keyed 'table' keeps its selection from run to run. When a run
\* renders other data than the run before, the framework either keeps the
\* state under the key or starts the widget anew, depending on how it
\* identifies the element; both are allowed for.
KeepChoices(table, rows) ==
    IF rows = <<>> \/ (m_gridShown /\ table = m_table) THEN {TRUE} ELSE BOOLEAN

\* Line 80.
RefreshResetsSelection(rows) == <<>>

\* "geometry" in table.columns (line 56).
HasGeometryColumn(table) ==
    \A i \in 1..Len(table) : table[i].geometry # GeomMissing

MapRows ==
    <<Row(1, GeomOf(<<Feature("fa"), Feature("fb")>>)),
      Row(2, GeomOf(<<Feature("fc")>>)),
      Row(3, GeomNone),
      Row(4, GeomBadList),
      Row(5, GeomNoKey),
      Row(6, GeomText)>>

\* The strictly increasing sequences of at most `most` numbers of 0..(n - 1).
Increasing(n, most) ==
    UNION {{q \in [1..k -> 0..(n - 1)] :
              \A i, j \in 1..k : i < j => q[i] < q[j]} : k \in 0..most}

\* What the page's query can return: public.test_geom belongs to the
\* database, and whoever writes to it decides what a fetch finds. Here: any
\* of MapRows, at most MaxMapRows of them, or a table without the column.
MapTables ==
    {Iloc(MapRows, q) : q \in Increasing(Len(MapRows), MaxMapRows)}
        \cup {<<Row(1, GeomMissing)>>}

\* One run of the page script, lines 13-146. `button` is the value of
\* st.button("Refresh data"), `rows` the selection the grid holds when the
\* run starts and `made` whether the user has just made it, `refreshed`
\* whether the run is the one line 81 asked for.
PageRun(button, rows, made, refreshed) ==
    \E fetchedTable \in IF m_cache.present THEN {m_cache.table} ELSE MapTables :
    LET hit == m_cache.present
        table == fetchedTable
        entry == [present |-> TRUE, table |-> table]
    IN  /\ m_fetched' = ~hit
        /\ m_table' = table
        /\ m_refreshed' = refreshed
        /\ IF table = <<>> \/ ~HasGeometryColumn(table)
           THEN \* lines 56-58: warning and st.stop(); the grid is not rendered
                /\ m_cache' = entry
                /\ m_widgetSel' = <<>>
                /\ m_selStale' = FALSE
                /\ m_gridShown' = FALSE
                /\ m_phase' = "idle"
                /\ m_outcome' = "warning"
                /\ m_gdfRows' = 0
                /\ m_layers' = <<>>
                /\ m_lookup' = <<>>
                /\ UNCHANGED m_selected_rows
           ELSE \E keep \in KeepChoices(table, rows) :
                LET event == IF keep THEN rows ELSE <<>>
                    selected == SelectionFromEvent(event)
                IN  /\ m_widgetSel' = event
                    /\ m_selStale' = (/\ event # <<>>
                                      /\ \/ ~hit
                                         \/ (~made /\ m_selStale))
                    /\ m_gridShown' = TRUE
                    /\ IF button
                       THEN \* lines 77-81
                            /\ m_cache' = NoEntry
                            /\ m_selected_rows' = RefreshResetsSelection(selected)
                            /\ m_phase' = "rerun"
                            /\ m_outcome' = "rerun"
                            /\ m_gdfRows' = 0
                            /\ m_layers' = <<>>
                            /\ m_lookup' = <<>>
                       ELSE LET r == MapSection(table, selected)
                            IN  /\ m_cache' = entry
                                /\ m_selected_rows' = selected
                                /\ m_phase' = "idle"
                                /\ m_outcome' = r.outcome
                                /\ m_gdfRows' = r.gdfRows
                                /\ m_layers' = r.layers
                                /\ m_lookup' = r.lookup

\* The selections a user can make in a grid of n rows: the positions of the
\* rows checked, in grid order.
Selections(n) == Increasing(n, n)

\* The page is opened, or run again for a reason of the host's.
Navigate ==
    /\ m_phase = "idle"
    /\ PageRun(FALSE, m_widgetSel, FALSE, FALSE)
    /\ UNCHANGED <<geomVars, engineVars, cacheVars, saveVars>>

\* The user changes the selection in the grid (on_select="rerun", line 65).
SelectRows ==
    /\ m_phase = "idle"
    /\ m_gridShown
    /\ \E rows \in Selections(Len(m_table)) :
        /\ rows # m_widgetSel
        /\ PageRun(FALSE, rows, TRUE, FALSE)
    /\ UNCHANGED <<geomVars, engineVars, cacheVars, saveVars>>

\* The user clicks "Refresh data" (line 77).
ClickRefresh ==
    /\ m_phase = "idle"
    /\ m_gridShown
    /\ PageRun(TRUE, m_widgetSel, FALSE, FALSE)
    /\ UNCHANGED <<geomVars, engineVars, cacheVars, saveVars>>

\* The run that st.rerun() of line 81 asked for.
Rerun ==
    /\ m_phase = "rerun"
    /\ PageRun(FALSE, m_widgetSel, FALSE, m_widgetSel # <<>>)
    /\ UNCHANGED <<geomVars, engineVars, cacheVars, saveVars>>

\* load_data's entry expires (ttl=600, lib.py 81).
MapCacheExpire ==
    /\ m_phase = "idle"
    /\ m_cache.present
    /\ m_cache' = NoEntry
    /\ UNCHANGED <<m_widgetSel, m_selStale, m_selected_rows, m_table,
                   m_fetched, m_gridShown, m_phase, m_refreshed, m_gdfRows,
                   m_lookup, m_layers, m_outcome>>
    /\ UNCHANGED <<geomVars, engineVars, cacheVars, saveVars>>

\* Before the first run: lines 13-14 have nothing in the session yet.
InitMap == MapIdle /\ GeomIdle /\ EngineIdle /\ CacheIdle /\ SaveIdle

NextMap ==
    \/ Navigate
    \/ SelectRows
    \/ ClickRefresh
    \/ Rerun
    \/ MapCacheExpire

SpecMap == InitMap /\ [][NextMap]_vars

---------------------------------------------------------------------------
(* The database engine, lib.py 15-78.                                      *)

Absent == "absent"
RequiredKeys == {"DB_USER", "DB_PASSWORD", "DB_HOST", "DB_NAME"}
EnvKeys == RequiredKeys \cup {"DB_PORT"}

DefaultPort == 5432

\* The texts DB_PORT holds in the model: a number, and no number.
PortTexts == {"5433", "5x"}

\* os.environ as the process can find it: every key there or not.
Environments ==
    {env \in [EnvKeys -> {Absent, "set"} \cup PortTexts] :
        /\ \A k \in RequiredKeys : env[k] \in {Absent, "set"}
        /\ env["DB_PORT"] \in {Absent} \cup PortTexts}

\* int(port) (line 42): raised is set for a text that is no number.
ParseInt(text) ==
    CASE text = "5432" -> [raised |-> FALSE, value |-> DefaultPort]
      [] text = "5433" -> [raised |-> FALSE, value |-> DefaultPort + 1]
      [] OTHER -> [raised |-> TRUE, value |-> 0]

\* Lines 26-33 with DB_PORT read like the other keys.
ReadEnvPortRequired(env) ==
    IF \E k \in EnvKeys : env[k] = Absent
    THEN [raised |-> TRUE, port |-> ""]
    ELSE [raised |-> FALSE, port |-> env["DB_PORT"]]

\* Lines 26-33: os.environ[key] raises KeyError for an absent key, and
\* os.environ.get("DB_PORT", "5432") gives the default for an absent port.
ReadEnv(env) ==
    IF \E k \in RequiredKeys : env[k] = Absent
    THEN [raised |-> TRUE, port |-> ""]
    ELSE [raised |-> FALSE,
          port |-> IF env["DB_PORT"] = Absent THEN "5432" ELSE env["DB_PORT"]]

\* A cache that never finds its entry.
CacheLookupAlwaysMiss(cached) == 0

\* st.cache_resource's read of its entry (line 63): 0 for none.
CacheLookup(cached) == cached

\* The call ends for session s with `result`, holding engine `got`.
EndCall(s, result, got) ==
    /\ e_pc' = [e_pc EXCEPT ![s] = "idle"]
    /\ e_result' = [e_result EXCEPT ![s] = result]
    /\ e_got' = [e_got EXCEPT ![s] = got]

\* A session calls get_database_engine() (lib.py 98, single_editor.py 18):
\* the cached engine when there is one, else the session goes on to compute
\* the entry under the cache's lock.
CallGetEngine(s) ==
    /\ e_pc[s] = "idle"
    /\ e_calls < MaxEngineCalls
    /\ e_calls' = e_calls + 1
    /\ IF CacheLookup(e_cached) # 0
       THEN EndCall(s, "engine", CacheLookup(e_cached))
       ELSE /\ e_pc' = [e_pc EXCEPT ![s] = "lock"]
            /\ e_result' = [e_result EXCEPT ![s] = "none"]
            /\ e_got' = [e_got EXCEPT ![s] = 0]
    /\ UNCHANGED <<e_env, e_reachable, e_cached, e_lock, e_port, e_built,
                   e_trips, e_created, e_urlPort>>
    /\ UNCHANGED <<geomVars, mapVars, cacheVars, saveVars>>

\* The session gets the lock and looks again: another session may have
\* stored the engine meanwhile.
AcquireLock(s) ==
    /\ e_pc[s] = "lock"
    /\ e_lock = 0
    /\ IF CacheLookup(e_cached) # 0
       THEN /\ EndCall(s, "engine", CacheLookup(e_cached))
            /\ UNCHANGED e_lock
       ELSE /\ e_lock' = s
            /\ e_pc' = [e_pc EXCEPT ![s] = "env"]
            /\ UNCHANGED <<e_result, e_got>>
    /\ UNCHANGED <<e_env, e_reachable, e_cached, e_port, e_calls, e_built,
                   e_trips, e_created, e_urlPort>>
    /\ UNCHANGED <<geomVars, mapVars, cacheVars, saveVars>>

\* _create_database_engine, lines 26-33.
ReadEnvironment(s) ==
    /\ e_pc[s] = "env"
    /\ LET r == ReadEnv(e_env)
       IN  IF r.raised
           THEN /\ EndCall(s, "EnvironmentError", 0)
                /\ e_lock' = 0
                /\ UNCHANGED e_port
           ELSE /\ e_port' = [e_port EXCEPT ![s] = r.port]
                /\ e_pc' = [e_pc EXCEPT ![s] = "build"]
                /\ UNCHANGED <<e_lock, e_result, e_got>>
    /\ UNCHANGED <<e_env, e_reachable, e_cached, e_calls, e_built, e_trips,
                   e_created, e_urlPort>>
    /\ UNCHANGED <<geomVars, mapVars, cacheVars, saveVars>>

\* Lines 35-51: the URL and the engine; int(port) may raise, which line 59
\* turns into ConnectionError.
BuildEngine(s) ==
    /\ e_pc[s] = "build"
    /\ LET p == ParseInt(e_port[s])
       IN  IF p.raised
           THEN /\ EndCall(s, "ConnectionError", 0)
                /\ e_lock' = 0
                /\ UNCHANGED <<e_built, e_urlPort>>
           ELSE /\ e_urlPort' = p.value
                /\ e_built' = e_built + 1
                /\ e_pc' = [e_pc EXCEPT ![s] = "ping"]
                /\ UNCHANGED <<e_lock, e_result, e_got>>
    /\ UNCHANGED <<e_env, e_reachable, e_cached, e_port, e_calls, e_trips,
                   e_created>>
    /\ UNCHANGED <<geomVars, mapVars, cacheVars, saveVars>>

\* Lines 55-60: SELECT 1. On success the engine is returned and
\* st.cache_resource stores it; on failure ConnectionError is raised and
\* nothing is stored.
RoundTrip(s) ==
    /\ e_pc[s] = "ping"
    /\ e_trips' = e_trips + 1
    /\ e_lock' = 0
    /\ IF e_reachable
       THEN /\ e_created' = e_created + 1
            /\ e_cached' = e_created + 1
            /\ EndCall(s, "engine", e_created + 1)
       ELSE /\ EndCall(s, "ConnectionError", 0)
            /\ UNCHANGED <<e_created, e_cached>>
    /\ UNCHANGED <<e_env, e_reachable, e_port, e_calls, e_built, e_urlPort>>
    /\ UNCHANGED <<geomVars, mapVars, cacheVars, saveVars>>

\* The database goes away or comes back.
NetworkChange ==
    /\ e_reachable' = ~e_reachable
    /\ UNCHANGED <<e_env, e_cached, e_lock, e_pc, e_port, e_result, e_got,
                   e_calls, e_built, e_trips, e_created, e_urlPort>>
    /\ UNCHANGED <<geomVars, mapVars, cacheVars, saveVars>>

\* The process starts with any environment and nothing cached.
InitEngine ==
    /\ GeomIdle
    /\ MapIdle
    /\ CacheIdle
    /\ SaveIdle
    /\ e_env \in Environments
    /\ e_reachable \in BOOLEAN
    /\ e_cached = 0
    /\ e_lock = 0
    /\ e_pc = [s \in Sessions |-> "idle"]
    /\ e_port = [s \in Sessions |-> ""]
    /\ e_result = [s \in Sessions |-> "none"]
    /\ e_got = [s \in Sessions |-> 0]
    /\ e_calls = 0
    /\ e_built = 0
    /\ e_trips = 0
    /\ e_created = 0
    /\ e_urlPort = 0

NextEngine ==
    \/ \E s \in Sessions : CallGetEngine(s)
    \/ \E s \in Sessions : AcquireLock(s)
    \/ \E s \in Sessions : ReadEnvironment(s)
    \/ \E s \in Sessions : BuildEngine(s)
    \/ \E s \in Sessions : RoundTrip(s)
    \/ NetworkChange

SpecEngine == InitEngine /\ [][NextEngine]_vars

---------------------------------------------------------------------------
(* load_data and its cache, lib.py 81-99.                                  *)

TTL == 600

\* The queries of the pages (single_dataframe.py 10, single_editor.py 13,
\* dataframe_map.py 53).
SqlTest == "select * from public.test"
SqlGeom == "select * from public.test_geom limit 1000"
Sqls == {SqlTest, SqlGeom}

NoResult == [sql |-> "", version |-> 0]

\* pd.read_sql(sql, engine) (line 99) on the database as it is.
ReadSql(sql, version) == [sql |-> sql, version |-> version]

NoCacheEntry == [present |-> FALSE, value |-> NoResult, created |-> 0]

\* An entry that is used however old it is.
NeverExpires(entry, now) == entry.present

\* Whether st.cache_data(ttl=600) still serves the entry (line 81).
Fresh(entry, now) == entry.present /\ now - entry.created < TTL

\* A call load_data(sql), from any page. A result in the cache is returned
\* as it is; else the query is executed, and its result stored unless the
\* query raised.
LoadData(sql) ==
    LET entry == c_entries[sql]
        inWindow == c_filled[sql] >= 0 /\ c_now - c_filled[sql] < TTL
    IN  IF Fresh(entry, c_now)
        THEN /\ c_last' = [sql |-> sql, inWindow |-> inWindow,
                           executed |-> FALSE, raised |-> FALSE,
                           value |-> entry.value]
             /\ UNCHANGED <<c_now, c_entries, c_dbVersion, c_filled, c_value>>
        ELSE \E ok \in BOOLEAN :
             IF ok
             THEN LET v == ReadSql(sql, c_dbVersion)
                  IN  /\ c_entries' = [c_entries EXCEPT ![sql] =
                             [present |-> TRUE, value |-> v, created |-> c_now]]
                      /\ c_filled' = [c_filled EXCEPT ![sql] = c_now]
                      /\ c_value' = [c_value EXCEPT ![sql] = v]
                      /\ c_last' = [sql |-> sql, inWindow |-> inWindow,
                                    executed |-> TRUE, raised |-> FALSE,
                                    value |-> v]
                      /\ UNCHANGED <<c_now, c_dbVersion>>
             ELSE /\ c_last' = [sql |-> sql, inWindow |-> inWindow,
                                executed |-> TRUE, raised |-> TRUE,
                                value |-> NoResult]
                  /\ UNCHANGED <<c_now, c_entries, c_dbVersion, c_filled, c_value>>

CallLoadData ==
    /\ \E sql \in Sqls : LoadData(sql)
    /\ UNCHANGED <<geomVars, mapVars, engineVars, saveVars>>

\* load_data.clear() (single_dataframe.py 14, single_editor.py 22,
\* dataframe_map.py 78): every entry goes.
ClearCache ==
    /\ c_entries' = [q \in Sqls |-> NoCacheEntry]
    /\ c_filled' = [q \in Sqls |-> -1]
    /\ UNCHANGED <<c_now, c_dbVersion, c_value, c_last>>
    /\ UNCHANGED <<geomVars, mapVars, engineVars, saveVars>>

\* Time passes.
Tick ==
    /\ \E d \in {ShortWait, LongWait} :
        /\ c_now + d <= MaxClock
        /\ c_now' = c_now + d
    /\ UNCHANGED <<c_entries, c_dbVersion, c_filled, c_value, c_last>>
    /\ UNCHANGED <<geomVars, mapVars, engineVars, saveVars>>

\* The tables are written to.
DbChange ==
    /\ c_dbVersion < MaxDbVersion
    /\ c_dbVersion' = c_dbVersion + 1
    /\ UNCHANGED <<c_now, c_entries, c_filled, c_value, c_last>>
    /\ UNCHANGED <<geomVars, mapVars, engineVars, saveVars>>

InitCache ==
    /\ GeomIdle
    /\ MapIdle
    /\ EngineIdle
    /\ SaveIdle
    /\ c_now = 0
    /\ c_entries = [q \in Sqls |-> NoCacheEntry]
    /\ c_dbVersion = 0
    /\ c_filled = [q \in Sqls |-> -1]
    /\ c_value = [q \in Sqls |-> NoResult]
    /\ c_last = [sql |-> "", inWindow |-> FALSE, executed |-> FALSE,
                 raised |-> FALSE, value |-> NoResult]

NextCache ==
    \/ CallLoadData
    \/ ClearCache
    \/ Tick
    \/ DbChange

SpecCache == InitCache /\ [][NextCache]_vars

---------------------------------------------------------------------------
(* The editor page, single_editor.py, public.test and a concurrent reader. *)

\* The rows public.test can hold.
TestRows == {"r1", "r2"}

\* A table (a sequence of rows) as the bag of its rows.
BagOfSeq(t) ==
    [r \in {t[i] : i \in 1..Len(t)} |->
        Cardinality({i \in 1..Len(t) : t[i] = r})]

\* pd.read_sql (lib.py 99): the rows as a table. The query has no ORDER BY,
\* so the order is the database's choice.
Orders(rows) ==
    {t \in [1..BagCardinality(rows) -> BagToSet(rows)] : BagOfSeq(t) = rows}

\* The rows a statement of another connection sees: the committed ones. What
\* an open transaction has deleted or inserted is not among them until it
\* commits (PostgreSQL, lib.py 38).
VisibleRows == s_committed

\* The edits the grid can hold (num_rows="dynamic", line 14): none, a row
\* added, a row deleted, a cell changed.
Edits(table) ==
    {NoEdit}
    \cup {[op |-> "add", pos |-> 0, row |-> r] :
            r \in IF Len(table) < MaxTestRows THEN TestRows ELSE {}}
    \cup {[op |-> "delete", pos |-> i, row |-> ""] : i \in 1..Len(table)}
    \cup {[op |-> "update", pos |-> i, row |-> r] :
            i \in 1..Len(table), r \in TestRows}

\* st.data_editor(table, ...) (line 14): the table with the edit applied.
ApplyEdit(table, e) ==
    CASE e.op = "add" -> Append(table, e.row)
      [] e.op = "delete" /\ e.pos <= Len(table) ->
            [i \in 1..(Len(table) - 1) |->
                IF i < e.pos THEN table[i] ELSE table[i + 1]]
      [] e.op = "update" /\ e.pos <= Len(table) ->
            [table EXCEPT ![e.pos] = e.row]
      [] OTHER -> table

\* A DELETE that commits on its own, outside the transaction of the insert.
DeleteAutocommitted(committed) ==
    [committed |-> EmptyBag, txDeleted |-> EmptyBag]

\* A DELETE that deletes nothing.
DeleteNothing(committed) ==
    [committed |-> committed, txDeleted |-> EmptyBag]

\* conn.execute(text("DELETE FROM public.test;")) inside engine.begin()
\* (lines 20-21): every committed row is deleted in the transaction, and the
\* committed rows stay as they are.
DeleteStatement(committed) ==
    [committed |-> committed, txDeleted |-> committed]

\* The end of the with block of line 19 without an exception: the
\* transaction commits what it deleted and inserted.
CommitResult(committed, txDeleted, txInserted) ==
    (committed (-) txDeleted) (+) BagOfSeq(txInserted)

\* A failure path that commits the work done so far.
RollbackCommitsWork(committed, txDeleted, txInserted) ==
    CommitResult(committed, txDeleted, txInserted)

\* The end of the with block of line 19 by an exception: the transaction is
\* rolled back.
RollbackResult(committed, txDeleted, txInserted) == committed

InTransaction == s_pc \in {"begun", "deleted", "inserting"}

\* lib.load_data("select * from public.test") (line 13) in a run of the
\* editor: the cached table, or a fetch that is then cached.
EditorLoad(table) ==
    IF s_cache.present
    THEN /\ table = s_cache.table
         /\ UNCHANGED <<s_cache, s_stale>>
    ELSE /\ table \in Orders(VisibleRows)
         /\ s_cache' = [present |-> TRUE, table |-> table]
         /\ s_stale' = FALSE

SaveTables == UNION {[1..n -> TestRows] : n \in 0..(MaxTestRows + 1)}

\* A run of the page without a click: opened, run again by the host, or the
\* run st.rerun() of line 24 asked for, in which the grid starts anew on the
\* table saved.
EditorRun ==
    /\ s_pc \in {"closed", "page", "rerun"}
    /\ s_edit' = IF s_pc = "rerun" THEN NoEdit ELSE s_edit
    /\ \E table \in SaveTables :
        /\ EditorLoad(table)
        /\ s_table' = table
        /\ s_data' = ApplyEdit(table, s_edit')
    /\ s_pc' = "page"
    /\ UNCHANGED <<s_committed, s_quiet, s_failedAt, s_txDeleted,
                   s_txInserted, s_without, s_msg, r_seen, r_when, r_without>>
    /\ UNCHANGED <<geomVars, mapVars, engineVars, cacheVars>>

\* The user edits the grid, which runs the page.
EditGrid ==
    /\ s_pc = "page"
    /\ \E e \in Edits(s_table) :
        /\ e # s_edit
        /\ s_edit' = e
        /\ \E table \in SaveTables :
            /\ EditorLoad(table)
            /\ s_table' = table
            /\ s_data' = ApplyEdit(table, e)
    /\ UNCHANGED <<s_committed, s_quiet, s_failedAt, s_pc, s_txDeleted,
                   s_txInserted, s_without, s_msg, r_seen, r_when, r_without>>
    /\ UNCHANGED <<geomVars, mapVars, engineVars, cacheVars>>

\* The user clicks "Save changes" (line 16): the run loads the table and
\* the grid, then lines 18-19 get the engine and open the transaction. A
\* failure of get_database_engine() is caught by line 25.
ClickSave ==
    /\ s_pc = "page"
    /\ \E table \in SaveTables :
        /\ EditorLoad(table)
        /\ s_table' = table
        /\ s_data' = ApplyEdit(table, s_edit)
    /\ s_without' = s_committed
    /\ s_quiet' = ~s_stale'
    /\ s_txDeleted' = EmptyBag
    /\ s_txInserted' = <<>>
    /\ r_seen' = EmptyBag
    /\ r_when' = "never"
    /\ r_without' = EmptyBag
    /\ \E engineOk \in BOOLEAN :
        IF engineOk
        THEN /\ s_pc' = "begun"
             /\ s_msg' = "none"
             /\ s_failedAt' = "none"
        ELSE /\ s_pc' = "page"
             /\ s_msg' = "error"
             /\ s_failedAt' = "engine"
    /\ UNCHANGED <<s_committed, s_edit>>
    /\ UNCHANGED <<geomVars, mapVars, engineVars, cacheVars>>

\* Line 20.
ExecDelete ==
    /\ s_pc = "begun"
    /\ LET d == DeleteStatement(s_committed)
       IN  /\ s_committed' = d.committed
           /\ s_txDeleted' = d.txDeleted
    /\ s_pc' = "deleted"
    /\ UNCHANGED <<s_cache, s_stale, s_quiet, s_failedAt, s_table, s_edit,
                   s_data, s_txInserted, s_without, s_msg, r_seen, r_when,
                   r_without>>
    /\ UNCHANGED <<geomVars, mapVars, engineVars, cacheVars>>

\* Line 21, data.to_sql(..., if_exists="append", index=False): one more row
\* of the grid is inserted in the transaction.
InsertRow ==
    /\ s_pc \in {"deleted", "inserting"}
    /\ Len(s_txInserted) < Len(s_data)
    /\ s_txInserted' = Append(s_txInserted, s_data[Len(s_txInserted) + 1])
    /\ s_pc' = "inserting"
    /\ UNCHANGED <<s_committed, s_cache, s_stale, s_quiet, s_failedAt,
                   s_table, s_edit, s_data, s_txDeleted, s_without, s_msg,
                   r_seen, r_when, r_without>>
    /\ UNCHANGED <<geomVars, mapVars, engineVars, cacheVars>>

\* The with block ends: commit, then lines 22-24: load_data.clear(),
\* st.success and st.rerun().
CommitSave ==
    /\ s_pc \in {"deleted", "inserting"}
    /\ Len(s_txInserted) = Len(s_data)
    /\ s_committed' = CommitResult(s_committed, s_txDeleted, s_txInserted)
    /\ s_txDeleted' = EmptyBag
    /\ s_txInserted' = <<>>
    /\ s_cache' = NoEntry
    /\ s_msg' = "success"
    /\ s_pc' = "rerun"
    /\ UNCHANGED <<s_stale, s_quiet, s_failedAt, s_table, s_edit, s_data,
                   s_without, r_seen, r_when, r_without>>
    /\ UNCHANGED <<geomVars, mapVars, engineVars, cacheVars>>

\* A statement of the transaction, or its commit, raises: the with block
\* rolls back and lines 25-26 show the error. The grid keeps its edit.
FailSave ==
    /\ InTransaction
    /\ s_committed' = RollbackResult(s_committed, s_txDeleted, s_txInserted)
    /\ s_txDeleted' = EmptyBag
    /\ s_txInserted' = <<>>
    /\ s_failedAt' = s_pc
    /\ s_msg' = "error"
    /\ s_pc' = "page"
    /\ UNCHANGED <<s_cache, s_stale, s_quiet, s_table, s_edit, s_data,
                   s_without, r_seen, r_when, r_without>>
    /\ UNCHANGED <<geomVars, mapVars, engineVars, cacheVars>>

\* Another client of the database inserts a row and commits.
OtherWrite ==
    /\ BagCardinality(s_committed) < MaxTestRows
    /\ \E r \in TestRows :
        /\ s_committed' = s_committed (+) SetToBag({r})
        /\ s_without' = s_without (+) SetToBag({r})
    /\ s_stale' = TRUE
    /\ s_quiet' = FALSE
    /\ UNCHANGED <<s_cache, s_failedAt, s_pc, s_table, s_edit, s_data,
                   s_txDeleted, s_txInserted, s_msg, r_seen, r_when,
                   r_without>>
    /\ UNCHANGED <<geomVars, mapVars, engineVars, cacheVars>>

\* Another session calls load_data for the same query and misses the cache
\* (lib.py 98-99): it fetches the rows it can see, and they are cached. What
\* a fetch made while the transaction is open saw is kept until the next
\* save begins.
ReaderFetch ==
    /\ ~s_cache.present
    /\ IF InTransaction
       THEN /\ r_seen' = VisibleRows
            /\ r_when' = s_pc
            /\ r_without' = s_without
       ELSE UNCHANGED <<r_seen, r_when, r_without>>
    /\ \E table \in Orders(VisibleRows) :
        s_cache' = [present |-> TRUE, table |-> table]
    /\ s_stale' = FALSE
    /\ UNCHANGED <<s_committed, s_quiet, s_failedAt, s_pc, s_table, s_edit,
                   s_data, s_txDeleted, s_txInserted, s_without, s_msg>>
    /\ UNCHANGED <<geomVars, mapVars, engineVars, cacheVars>>

\* The cached table goes: its ttl is over, or another page's Refresh called
\* load_data.clear() (single_dataframe.py 14, dataframe_map.py 78).
SaveCacheGone ==
    /\ s_cache.present
    /\ s_cache' = NoEntry
    /\ UNCHANGED <<s_committed, s_stale, s_quiet, s_failedAt, s_pc, s_table,
                   s_edit, s_data, s_txDeleted, s_txInserted, s_without,
                   s_msg, r_seen, r_when, r_without>>
    /\ UNCHANGED <<geomVars, mapVars, engineVars, cacheVars>>

TestBags ==
    {BagOfSeq(t) : t \in UNION {[1..n -> TestRows] : n \in 0..MaxTestRows}}

InitSave ==
    /\ GeomIdle
    /\ MapIdle
    /\ EngineIdle
    /\ CacheIdle
    /\ s_committed \in TestBags
    /\ s_cache = NoEntry
    /\ s_stale = FALSE
    /\ s_quiet = FALSE
    /\ s_failedAt = "none"
    /\ s_pc = "closed"
    /\ s_table = <<>>
    /\ s_edit = NoEdit
    /\ s_data = <<>>
    /\ s_txDeleted = EmptyBag
    /\ s_txInserted = <<>>
    /\ s_without = EmptyBag
    /\ s_msg = "none"
    /\ r_seen = EmptyBag
    /\ r_when = "never"
    /\ r_without = EmptyBag

NextSave ==
    \/ EditorRun
    \/ EditGrid
    \/ ClickSave
    \/ ExecDelete
    \/ InsertRow
    \/ CommitSave
    \/ FailSave
    \/ OtherWrite
    \/ ReaderFetch
    \/ SaveCacheGone

SpecSave == InitSave /\ [][NextSave]_vars

---------------------------------------------------------------------------
(* Claims about the map page, under SpecMap.                               *)

\* C2: in the run that follows a Refresh clicked with a selection, the table
\* is fetched anew, the selection set is empty, and no index selected on the
\* table of the earlier fetch is given to table.iloc for the highlight layer.
C2_RefreshClearsSelection ==
    m_refreshed =>
        /\ m_fetched
        /\ m_selected_rows = <<>>
        /\ ~(m_lookup # <<>> /\ m_selStale)

\* The features, reprojected, of the rows at the selected positions, and
\* how many they are.
C4_SelectedFeatures(table, rows) ==
    UNION {{ToCrs(table[rows[k] + 1].geometry.features[f]) :
              f \in 1..C5_FeatureCount(table[rows[k] + 1])} : k \in 1..Len(rows)}

C4_SelectedCount(table, rows) ==
    C5_CountUpTo(Iloc(table, rows), Len(rows))

C4_LayerGeometries(layer) == {layer.data[i].geometry : i \in 1..Len(layer.data)}

\* C4 as claimed: a rendered map has one base layer of alpha 255 and nothing
\* else when nothing is selected, and for every selection that is not empty a
\* base layer of alpha 100 and exactly one highlight layer holding only the
\* selected rows' features.
C4_Original ==
    m_outcome = "map" =>
        /\ m_selected_rows = <<>> =>
            /\ Len(m_layers) = 1
            /\ m_layers[1].name = "base"
            /\ m_layers[1].alpha = 255
        /\ m_selected_rows # <<>> =>
            /\ Len(m_layers) = 2
            /\ m_layers[1].name = "base"
            /\ m_layers[1].alpha = 100
            /\ m_layers[2].name = "highlight"
            /\ C4_LayerGeometries(m_layers[2])
                 \subseteq C4_SelectedFeatures(m_table, m_selected_rows)

\* C4 as amended: as claimed, but the highlight layer is there exactly when
\* the selected rows carry a feature; a selection of rows without features
\* leaves the faded base layer alone.
C4_LayersFollowSelection ==
    m_outcome = "map" =>
        /\ m_layers[1].name = "base"
        /\ Len(m_layers[1].data) = m_gdfRows
        /\ \A i \in 2..Len(m_layers) : m_layers[i].name = "highlight"
        /\ m_selected_rows = <<>> =>
            /\ Len(m_layers) = 1
            /\ m_layers[1].alpha = 255
        /\ m_selected_rows # <<>> =>
            /\ m_layers[1].alpha = 100
            /\ IF C4_SelectedCount(m_table, m_selected_rows) > 0
               THEN /\ Len(m_layers) = 2
                    /\ Len(m_layers[2].data)
                         = C4_SelectedCount(m_table, m_selected_rows)
                    /\ C4_LayerGeometries(m_layers[2])
                         = C4_SelectedFeatures(m_table, m_selected_rows)
               ELSE Len(m_layers) = 1

\* C4 witness: a map rendered with one of two feature-carrying rows selected,
\* so the highlight layer holds fewer features than the base layer.
C4_Witness ==
    /\ m_outcome = "map"
    /\ m_selected_rows # <<>>
    /\ Len(m_layers) = 2
    /\ Len(m_layers[2].data) < Len(m_layers[1].data)
    /\ m_layers[1].alpha = 100

\* A table with rows, a geometry column, and no row with a feature in a
\* geometry collection.
C9_NoCollection(table) ==
    /\ table # <<>>
    /\ HasGeometryColumn(table)
    /\ \A i \in 1..Len(table) : C5_FeatureCount(table[i]) = 0

\* C9: a run on a table with rows of which none has a geometry collection
\* finds no feature and ends with the page's message, no exception and no map.
C9_NoDataMessage ==
    (m_phase = "idle" /\ m_outcome # "none" /\ C9_NoCollection(m_table)) =>
        /\ m_outcome = "message"
        /\ m_gdfRows = 0
        /\ m_layers = <<>>

\* C9 witness: such a run, on a table of two rows one of which holds a
\* collection whose features are no list.
C9_Witness ==
    /\ m_outcome = "message"
    /\ C9_NoCollection(m_table)
    /\ Len(m_table) >= 2
    /\ \E i \in 1..Len(m_table) : m_table[i].geometry = GeomBadList

---------------------------------------------------------------------------
(* Claims about the database engine, under SpecEngine.                     *)

C6_MissingRequired == \E k \in RequiredKeys : e_env[k] = "absent"

\* C6: with DB_USER, DB_PASSWORD, DB_HOST or DB_NAME absent every call ends
\* in EnvironmentError, and no engine is built and no round trip attempted;
\* an absent DB_PORT alone is no error and the URL gets port 5432; every
\* other failure (a port that is no number, a failed SELECT 1) ends in
\* ConnectionError.
C6_ConfigurationErrorFirst ==
    /\ C6_MissingRequired => e_built = 0 /\ e_trips = 0 /\ e_created = 0
    /\ (~C6_MissingRequired /\ e_env["DB_PORT"] = "absent" /\ e_built > 0)
          => e_urlPort = 5432
    /\ \A s \in Sessions :
        /\ e_pc[s] \in {"build", "ping"} => ~C6_MissingRequired
        /\ e_result[s] # "none" =>
            /\ e_result[s] = "EnvironmentError" <=> C6_MissingRequired
            /\ e_result[s] \in {"EnvironmentError", "ConnectionError", "engine"}
            /\ (e_result[s] = "engine") = (e_got[s] # 0)
            /\ (~C6_MissingRequired /\ e_env["DB_PORT"] = "5x")
                  => e_result[s] = "ConnectionError" /\ e_built = 0
            /\ e_result[s] = "ConnectionError" =>
                  \/ e_env["DB_PORT"] = "5x"
                  \/ e_trips > e_created

\* C6 witness: with only DB_PORT absent one session got an engine, and
\* another call ended in ConnectionError after a failed round trip.
C6_Witness ==
    /\ ~C6_MissingRequired
    /\ e_env["DB_PORT"] = "absent"
    /\ \E s, t \in Sessions :
        /\ e_result[s] = "ConnectionError"
        /\ e_result[t] = "engine"
    /\ e_urlPort = 5432

\* C10: at most one engine is ever created; none before the first call; and
\* every call that returned an engine returned the one the cache holds.
C10_OneEngine ==
    /\ e_created <= 1
    /\ e_calls = 0 => e_created = 0
    /\ e_cached = e_created
    /\ \A s \in Sessions : e_got[s] # 0 => e_got[s] = e_cached

\* C10 witness: two sessions hold the engine and one call failed before it
\* was created: three calls, one engine.
C10_Witness ==
    /\ e_created = 1
    /\ e_trips >= 2
    /\ \E s, t \in Sessions : s # t /\ e_got[s] = 1 /\ e_got[t] = 1

---------------------------------------------------------------------------
(* Claims about load_data's cache, under SpecCache.                        *)

\* C3: a call of load_data with an SQL text whose query returned a result
\* less than 600 seconds ago, with no load_data.clear() since, executes
\* nothing and returns that result; any other call (the first one, the first
\* one after a clear, the first one after the window) executes the query.
C3_CachedWithinWindow ==
    c_last.sql # "" =>
        /\ c_last.inWindow =>
            /\ ~c_last.executed
            /\ ~c_last.raised
            /\ c_last.value = c_value[c_last.sql]
        /\ ~c_last.inWindow => c_last.executed
        /\ (c_last.executed /\ ~c_last.raised) =>
            /\ c_last.value.sql = c_last.sql
            /\ c_last.value = c_value[c_last.sql]

\* C3 witness: a call answered from the cache, 250 seconds or more after the
\* query ran, while the database has changed since: the result returned is
\* the old one.
C3_Witness ==
    /\ c_last.sql # ""
    /\ c_last.inWindow
    /\ ~c_last.executed
    /\ c_now - c_filled[c_last.sql] > 0
    /\ c_last.value.version < c_dbVersion

---------------------------------------------------------------------------
(* Claims about the editor's save, under SpecSave.                         *)

\* C1: a save commits nothing before its end, and a save that failed (the
\* engine, the DELETE, any row of the insert, the commit) has committed
\* nothing at all: public.test holds the rows it held when the save began,
\* with what other clients added since; the handler has shown the error and
\* the page is up, no transaction left open.
C1_SaveAllOrNothing ==
    /\ InTransaction => s_committed = s_without
    /\ s_msg = "error" =>
        /\ s_committed = s_without
        /\ s_pc = "page"
        /\ s_failedAt # "none"
        /\ s_txDeleted = EmptyBag
        /\ s_txInserted = <<>>

\* C1 witness: a save of an edited grid failed after the DELETE, with rows
\* already inserted, and the table still holds rows.
C1_Witness ==
    /\ s_msg = "error"
    /\ s_failedAt = "inserting"
    /\ s_data # s_table
    /\ s_committed # EmptyBag

\* C7: after a successful save of a grid equal to the table loaded, no other
\* client having written since that table was fetched, public.test holds the
\* rows it held before, as a bag.
C7_SaveRoundTrip ==
    (s_pc = "rerun" /\ s_msg = "success" /\ s_quiet /\ s_data = s_table) =>
        /\ s_committed = s_without
        /\ s_committed = BagOfSeq(s_table)

\* C7 witness: such a save of a table of two rows or more.
C7_Witness ==
    /\ s_pc = "rerun"
    /\ s_msg = "success"
    /\ s_quiet
    /\ s_data = s_table
    /\ Len(s_table) >= 2

\* C8 as claimed: a fetch between the DELETE and the insert, no other client
\* writing, finds the table empty.
C8_Original ==
    (r_when = "deleted" /\ s_quiet) => r_seen = EmptyBag

\* C8 as amended: a fetch between the DELETE and the end of the insert
\* finds the rows committed when the save began (and what other clients
\* added since): the DELETE shows only once the transaction commits, so the
\* reader finds an empty table only if the table was empty before the save.
C8_ReaderSeesCommitted ==
    r_when \in {"deleted", "inserting"} =>
        /\ r_seen = r_without
        /\ (InTransaction /\ s_quiet) => r_seen = BagOfSeq(s_table)

\* C8 witness: a fetch right after the DELETE of a table that held rows.
C8_Witness ==
    /\ r_when = "deleted"
    /\ s_quiet
    /\ r_seen # EmptyBag

====
